---- MODULE Spec2Model ----
(***************************************************************************)
(* Gateway session manager of bot-rs (src/src/services/websocket).         *)
(*                                                                         *)
(* WebSocketManager::start loops over connect_and_loop; one connection     *)
(* attempt waits for Hello, sends Identify or Resume, then multiplexes     *)
(* inbound frames, the heartbeat interval and the ACK timeout in one       *)
(* select loop.  SessionState (session_id, last_seq) outlives connections. *)
(*                                                                         *)
(* Time is kept as the distance to the two timers of the select loop       *)
(* (hb_left, ack_left, in milliseconds); Advance lets time pass up to the  *)
(* next timer that is due.                                                 *)
(***************************************************************************)
EXTENDS Integers, Sequences, FiniteSets, TLC

\* ------------------------------------------------------------------ bounds

\* Largest sequence number s a peer frame carries in the model.
MaxSeq == 2

\* Most dispatch tasks of the intake server alive at once.
MaxTasks == 2

\* Longest client_secret of which every byte string is tried.
MaxShortSecret == 3

\* Text frames the peer delivers on the connection whose stream is followed
\* frame by frame.
MaxArrived == 3

\* ------------------------------------------------------- program constants

MAX_RESUME_RETRIES == 3
RESUME_WAIT_SECONDS == 30
HEARTBEAT_TIMEOUT_SECONDS == 7
RECONNECT_BASE_DELAY_MS == 1000
RECONNECT_MAX_DELAY_MS == 5000
\* ed25519_dalek::SECRET_KEY_LENGTH
SECRET_KEY_LENGTH == 32

\* OpCode (models/event.rs)
Dispatch == 0
Heartbeat == 1
Identify == 2
Resume == 6
Reconnect == 7
InvalidSession == 9
Hello == 10
HeartbeatACK == 11
CallbackACK == 12
WebhookValidate == 13

OpCodes ==
    {Dispatch, Heartbeat, Identify, Resume, Reconnect, InvalidSession, Hello,
     HeartbeatACK, CallbackACK, WebhookValidate}

\* ------------------------------------------------------------ value spaces

\* Option::None of session_id, last_seq / s, t, heartbeat_interval.
NoSession == "none"
NoSeq == -1
NoT == "none"
NoInterval == -1
\* sleep(Duration::MAX): a timer that never fires.
Never == -1

SessionIds == {"S1", "S2"}
Seqs == 0..MaxSeq
\* an op value outside the opcode table
UnknownOps == {3}
Tags == {NoT, "READY", "GROUP_AT_MESSAGE_CREATE", "C2C_MESSAGE_CREATE", "RESUMED"}
\* heartbeat_interval values of a Hello, in ms: 0, shorter than, equal to and
\* longer than the ACK timeout.
HelloIntervals == {0, 100, 7000, 10000}
\* base delays rng.random_range(BASE * 0.8 ..= BASE * 1.2) can return: both ends
\* and the middle
BaseSamples ==
    {(RECONNECT_BASE_DELAY_MS * 8) \div 10, RECONNECT_BASE_DELAY_MS,
     (RECONNECT_BASE_DELAY_MS * 12) \div 10}

\* Payload d: absent (or not a JSON object), or an object of which the model
\* keeps the two members the manager reads: session_id (a string, else
\* NoSession) and heartbeat_interval (a u64, else NoInterval).
NoD == [k |-> "absent", sid |-> NoSession, hb |-> NoInterval]
ObjD(sid, hb) == [k |-> "obj", sid |-> sid, hb |-> hb]

\* QQBotEvent (models/event.rs): the envelope of a frame that parses.
QQBotEvent(op, s, t, d) == [op |-> op, s |-> s, t |-> t, d |-> d]

DispatchPayloads == {NoD} \cup {ObjD(sid, NoInterval) : sid \in SessionIds \cup {NoSession}}
HelloPayloads == {NoD} \cup {ObjD(NoSession, hb) : hb \in HelloIntervals \cup {NoInterval}}

\* The text frames a peer can send that parse as an envelope.
Frames ==
    {QQBotEvent(Dispatch, s, "READY", d) :
        s \in Seqs \cup {NoSeq}, d \in DispatchPayloads}
    \cup {QQBotEvent(Dispatch, s, t, d) :
        s \in Seqs \cup {NoSeq}, t \in Tags \ {"READY"},
        d \in {NoD, ObjD("S1", NoInterval)}}
    \cup {QQBotEvent(op, s, t, ObjD("S1", NoInterval)) :
        op \in UnknownOps, s \in Seqs \cup {NoSeq}, t \in {NoT, "READY"}}
    \cup {QQBotEvent(op, s, NoT, NoD) :
        op \in OpCodes \ {Dispatch, Hello}, s \in Seqs \cup {NoSeq}}
    \cup {QQBotEvent(Hello, s, NoT, d) :
        s \in Seqs \cup {NoSeq}, d \in HelloPayloads}

\* A frame the manager wrote to the websocket (NoFrame: nothing written).
Sent(op, sid, seq) == [op |-> op, sid |-> sid, seq |-> seq]
NoFrame == Sent(-1, NoSession, NoSeq)

Min(a, b) == IF a <= b THEN a ELSE b

\* ------------------------------------------------------------------- state

VARIABLES
    state,          \* SessionState.data: [session_id, last_seq]
    resume_count,   \* WebSocketManager.resume_count
    pc,             \* where start() is: "connect", "hello", "steady", "route",
                    \* "ended" (connect_and_loop returned), "sleep", "panic"
    result,         \* how the last connect_and_loop ended ("none": not known)
    event,          \* the parsed envelope being routed (pc = "route")
    heartbeat_interval_ms,  \* interval taken from Hello (0 outside the loop)
    hb_left,        \* ms until heartbeat_interval ticks
    ack_left,       \* ms until ack_timeout fires, or Never
    awaiting_ack,   \* local awaiting_ack of the select loop
    sleep_kind,     \* "none", "short", "long": the sleep handle_reconnect_delay is in
    sleep_ms,       \* its duration
    out,            \* the frame written by the last step, or NoFrame
    hs_sent,        \* history: handshake frames written on this connection
    hs_kind,        \* history: Identify / Resume written on this connection, or -1
    unacked,        \* history: a heartbeat was written on this connection and no
                    \*          HeartbeatACK has been routed since
    fresh,          \* history: no handshake frame was ever written
    fails,          \* history: failed attempts in a row since the last
                    \*          success-close or long pause
    ready_drop,     \* history: [sid, seq, hs] of a READY routed as the last
                    \*          frame before the connection dropped (hs: the
                    \*          handshake of that connection), else NoReady
    at_end,         \* history: SessionState at the moment the last attempt
                    \*          ended (at the return), until the next handshake
    invoked,        \* the user handler the last step invoked, or "none"
    pre,            \* history: SessionState as it was before the frame being
                    \*          routed was read (pc = "route"), else NoSessionData
    rx,             \* history: what the last step read from the websocket while
                    \*          waiting for Hello ([k, s]), or that the last step
                    \*          of the select loop read a text frame that does
                    \*          not parse; else NoRx
    reset_from,     \* history: the resume_count the Ok arm of start() has just
                    \*          reset, until the next connect; else NoCount
    req,            \* intake server: the POST payload being handled, or NoEvent
    resp,           \* intake server: the response to the last POST, or NoResp
    tasks,          \* intake server: the detached dispatch tasks, in spawn order
    called,         \* intake server: the handler the last step invoked, or "none"
    secret,         \* validate_webhook: client_secret, a sequence of bytes
    seed,           \* validate_webhook: the seed being extended
    seed_pc,        \* validate_webhook: "idle", "extend", "done"
    value,          \* codec: the QQBotEvent to encode, or NoValue
    wire,           \* codec: the JSON object it encodes to, or NoWire
    decoded,        \* codec: the QQBotEvent decoded from wire, or NoValue
    read,           \* select loop: the text frames the stream `read` holds
                    \*              and has not yielded yet, in arrival order
    arrived,        \* select loop, history: every frame the peer delivered
    routed,         \* select loop, history: the frames whose opcode match
                    \*              ran, in that order, each with SessionState
                    \*              as it was when the match started
    cur,            \* select loop: the envelope being routed, or NoEvent
    sel_data,       \* select loop: SessionState.data
    sel_await,      \* select loop: awaiting_ack
    sel_pc          \* select loop: "idle", "select", "route", "ended"

\* the session manager
mvars ==
    <<state, resume_count, pc, result, event, heartbeat_interval_ms, hb_left,
      ack_left, awaiting_ack, sleep_kind, sleep_ms, out, hs_sent, hs_kind,
      unacked, fresh, fails, ready_drop, at_end, invoked, pre, rx, reset_from>>

\* the intake server
ivars == <<req, resp, tasks, called>>

\* validate_webhook
svars == <<secret, seed, seed_pc>>

\* the JSON codec of QQBotEvent
cvars == <<value, wire, decoded>>

\* the select loop followed frame by frame
qvars == <<read, arrived, routed, cur, sel_data, sel_await, sel_pc>>

\* everything but the session manager
aux == <<ivars, svars, cvars, qvars>>

vars == <<mvars, aux>>

NoEvent == QQBotEvent(-1, NoSeq, NoT, NoD)

\* What a step of the loop waiting for Hello read from the websocket: k is
\* "hello" (Hello, object d, a u64 heartbeat_interval > 0), "hello_zero" (the
\* same with heartbeat_interval 0), "hello_no_interval" (Hello, object d, no
\* u64 heartbeat_interval), "hello_no_d" (Hello whose d is not an object),
\* "other" (an envelope of another opcode), "bad_text" (a text frame that is
\* not an envelope), "binary" (binary, ping, pong), "close", "end", "err";
\* s is the s of the envelope.
Rx(k, s) == [k |-> k, s |-> s]
NoRx == Rx("none", NoSeq)
NoCount == -1

\* the intake server has not answered
NoResp == [status |-> 0, body |-> "none"]

\* QQBotEvent with all five fields (the manager's frames above leave id
\* out). Option::None is "None" for id and d, NoSeq for s, NoT for t; d is
\* "None", or Some of a JSON value: "null", "1" (a number), "{}" (an object).
Envelope(id, op, d, s, t) == [id |-> id, op |-> op, d |-> d, s |-> s, t |-> t]
NoValue == Envelope("None", -1, "None", NoSeq, NoT)

\* A JSON object: the member names it has and their values (the value of a
\* member it lacks is not looked at).
Json(members, id, op, d, s, t) ==
    [members |-> members, id |-> id, op |-> op, d |-> d, s |-> s, t |-> t]
\* no JSON text
NoWire == Json({}, "None", -1, "None", NoSeq, NoT)
NoReady == [sid |-> NoSession, seq |-> NoSeq, hs |-> -1]

\* SessionData::default()
SessionData(sid, seq) == [session_id |-> sid, last_seq |-> seq]

NoSessionData == SessionData(NoSession, NoSeq)

\* update with the is_some() tests dropped: each field takes its argument
updateMut(data, session_id, last_seq) ==
    [session_id |-> session_id, last_seq |-> last_seq]

\* SessionState::update: a field is written when the argument is Some and
\* differs from what is stored.
update(data, session_id, last_seq) ==
    [session_id |->
        IF session_id # NoSession /\ data.session_id # session_id
        THEN session_id ELSE data.session_id,
     last_seq |->
        IF last_seq # NoSeq /\ data.last_seq # last_seq
        THEN last_seq ELSE data.last_seq]

\* OpCode::try_from(op).unwrap_or(OpCode::Dispatch)
OpCodeOf(op) == IF op \in OpCodes THEN op ELSE Dispatch

\* the handshake choice with `||` for `&&`: Resume as soon as a session_id is stored
HandshakeFrameMut(data) ==
    IF data.session_id # NoSession
    THEN Sent(Resume, data.session_id, data.last_seq)
    ELSE Sent(Identify, NoSession, NoSeq)

\* connect_and_loop step 2: Resume when both fields are stored, else Identify.
HandshakeFrame(data) ==
    IF data.session_id # NoSession /\ data.last_seq # NoSeq
    THEN Sent(Resume, data.session_id, data.last_seq)
    ELSE Sent(Identify, NoSession, NoSeq)

\* send_heartbeat with d always null
HeartbeatFrameMut(data) == Sent(Heartbeat, NoSession, NoSeq)

\* send_heartbeat: {op: 1, d: last_seq or null}
HeartbeatFrame(data) == Sent(Heartbeat, NoSession, data.last_seq)

\* handle_dispatch installing a session_id only while none is stored
handle_dispatchMut(data, ev) ==
    IF ev.t = "READY" /\ ev.d.k = "obj" /\ ev.d.sid # NoSession
       /\ data.session_id = NoSession
    THEN update(data, ev.d.sid, NoSeq)
    ELSE data

\* handle_dispatch: READY with an object d holding a string session_id installs
\* it; every other tag (and an absent t) changes nothing.
handle_dispatch(data, ev) ==
    IF ev.t = "READY" /\ ev.d.k = "obj" /\ ev.d.sid # NoSession
    THEN update(data, ev.d.sid, NoSeq)
    ELSE data

\* handle_dispatch failing as dispatch_event of the intake server does: on a
\* tag EventType does not know and on a message whose d does not decode
dispatch_resultMut(ev) ==
    IF ev.t # NoT /\ ev.t \notin {"GROUP_AT_MESSAGE_CREATE", "READY", "C2C_MESSAGE_CREATE"}
    THEN "Other"
    ELSE IF ev.t \in {"GROUP_AT_MESSAGE_CREATE", "C2C_MESSAGE_CREATE"} /\ ev.d.k # "obj"
    THEN "Serialization"
    ELSE "Ok"

\* handle_dispatch: what it returns to the `?` of the Dispatch arm. Every
\* path ends in Ok(()) (SessionState::update cannot fail).
dispatch_result(ev) == "Ok"

\* handle_dispatch: the user handler it invokes for the event. Tags other than
\* READY reach the `_` arm, which only logs.
dispatch_handler(ev) == "none"

\* HEARTBEAT_TIMEOUT_SECONDS as ms
AckTimeoutMs == HEARTBEAT_TIMEOUT_SECONDS * 1000
LongPauseMs == RESUME_WAIT_SECONDS * 1000

\* the delay doubling with every retry (exponential backoff) under the same cap
final_delayMut(delay_ms, count) ==
    Min(delay_ms * (2 ^ count), RECONNECT_MAX_DELAY_MS)

\* handle_reconnect_delay, else branch: min(delay_ms * (resume_count + 1), MAX)
final_delay(delay_ms, count) ==
    Min(delay_ms * (count + 1), RECONNECT_MAX_DELAY_MS)

\* the pending-ACK flag and the ACK timer kept across the return, as fields of
\* the manager would be
NoLoopMut ==
    /\ heartbeat_interval_ms' = 0
    /\ hb_left' = 0
    /\ ack_left' = ack_left
    /\ awaiting_ack' = awaiting_ack

\* locals of the select loop as they are outside it
NoLoop ==
    /\ heartbeat_interval_ms' = 0
    /\ hb_left' = 0
    /\ ack_left' = Never
    /\ awaiting_ack' = FALSE

\* connect_and_loop returns r
Return(r) ==
    /\ pc' = "ended"
    /\ result' = r
    /\ event' = NoEvent
    /\ at_end' = state
    /\ invoked' = "none"
    /\ pre' = NoSessionData
    /\ NoLoop

\* the intake server has handled no POST
IntakeIdle ==
    /\ req = NoEvent
    /\ resp = NoResp
    /\ tasks = <<>>
    /\ called = "none"

\* validate_webhook is not running
SeedIdle ==
    /\ secret = <<>>
    /\ seed = <<>>
    /\ seed_pc = "idle"

\* nothing is being encoded
CodecIdle ==
    /\ value = NoValue
    /\ wire = NoWire
    /\ decoded = NoValue

\* no stream is being followed
SelectIdle ==
    /\ read = <<>>
    /\ arrived = <<>>
    /\ routed = <<>>
    /\ cur = NoEvent
    /\ sel_data = NoSessionData
    /\ sel_await = FALSE
    /\ sel_pc = "idle"

AuxIdle == IntakeIdle /\ SeedIdle /\ CodecIdle /\ SelectIdle

\* WebSocketManager::new, before start() runs
ManagerInit ==
    /\ state = NoSessionData
    /\ resume_count = 0
    /\ pc = "connect"
    /\ result = "none"
    /\ event = NoEvent
    /\ heartbeat_interval_ms = 0
    /\ hb_left = 0
    /\ ack_left = Never
    /\ awaiting_ack = FALSE
    /\ sleep_kind = "none"
    /\ sleep_ms = 0
    /\ out = NoFrame
    /\ hs_sent = 0
    /\ hs_kind = -1
    /\ unacked = FALSE
    /\ fresh = TRUE
    /\ fails = 0
    /\ ready_drop = NoReady
    /\ at_end = NoSessionData
    /\ invoked = "none"
    /\ pre = NoSessionData
    /\ rx = NoRx
    /\ reset_from = NoCount

Init == ManagerInit /\ AuxIdle


\* ----------------------------------------------------------------- helpers

\* the history of one connection, as it is when no connection is open
NoConn ==
    /\ hs_sent' = 0
    /\ hs_kind' = -1
    /\ unacked' = FALSE

\* a step of the select loop that writes nothing and keeps the loop running
Quiet ==
    /\ out' = NoFrame
    /\ result' = "none"
    /\ at_end' = NoSessionData
    /\ UNCHANGED <<resume_count, sleep_kind, sleep_ms, hs_sent, hs_kind, fresh, fails>>

\* ----------------------------------------------------- start(): outer loop

\* connect_async succeeds; the loop waiting for Hello starts.
Connect ==
    /\ pc = "connect"
    /\ pc' = "hello"
    /\ sleep_kind' = "none"
    /\ sleep_ms' = 0
    /\ out' = NoFrame
    /\ NoConn
    /\ UNCHANGED <<state, resume_count, result, event, heartbeat_interval_ms,
                   hb_left, ack_left, awaiting_ack, fresh, fails, ready_drop,
                   at_end, invoked>>
    /\ UNCHANGED pre
    /\ rx' = NoRx
    /\ reset_from' = NoCount
    /\ UNCHANGED aux

\* connect_async fails: `?` returns ConnectionFailed.
ConnectFail ==
    /\ pc = "connect"
    /\ Return("ConnectionFailed")
    /\ sleep_kind' = "none"
    /\ sleep_ms' = 0
    /\ out' = NoFrame
    /\ NoConn
    /\ ready_drop' = NoReady
    /\ UNCHANGED <<state, resume_count, fresh, fails>>
    /\ rx' = NoRx
    /\ reset_from' = NoCount
    /\ UNCHANGED aux

\* the Ok(_) arm without `self.resume_count = 0`
StartOkMut ==
    /\ pc = "ended"
    /\ result = "Ok"
    /\ resume_count' = resume_count
    /\ reset_from' = resume_count
    /\ fails' = 0
    /\ pc' = "connect"
    /\ out' = NoFrame
    /\ UNCHANGED <<state, result, event, heartbeat_interval_ms, hb_left, ack_left,
                   awaiting_ack, sleep_kind, sleep_ms, hs_sent, hs_kind, unacked,
                   fresh, ready_drop, at_end, invoked>>
    /\ UNCHANGED pre
    /\ rx' = NoRx
    /\ UNCHANGED aux

\* start(), Ok(_) arm: the counter is reset and the loop connects again.
StartOk ==
    /\ pc = "ended"
    /\ result = "Ok"
    /\ resume_count' = 0
    /\ reset_from' = resume_count
    /\ fails' = 0
    /\ pc' = "connect"
    /\ out' = NoFrame
    /\ UNCHANGED <<state, result, event, heartbeat_interval_ms, hb_left, ack_left,
                   awaiting_ack, sleep_kind, sleep_ms, hs_sent, hs_kind, unacked,
                   fresh, ready_drop, at_end, invoked>>
    /\ UNCHANGED pre
    /\ rx' = NoRx
    /\ UNCHANGED aux

\* the ceiling test with `>` for `>=`
AtCeilingMut(count) == count > MAX_RESUME_RETRIES

\* handle_reconnect_delay: the test that selects the long pause
AtCeiling(count) == count >= MAX_RESUME_RETRIES

\* the Err(e) arm backing off only for HeartbeatTimeout, ConnectionClosed and
\* Io, and looping at once for every other error
handle_reconnect_delayMut ==
    /\ pc = "ended"
    /\ result \notin {"Ok", "none"}
    /\ fails' = fails + 1
    /\ IF result \in {"HeartbeatTimeout", "ConnectionClosed", "Io"}
       THEN /\ pc' = "sleep"
            /\ IF AtCeiling(resume_count)
               THEN /\ sleep_kind' = "long"
                    /\ sleep_ms' = LongPauseMs
               ELSE \E delay_ms \in BaseSamples :
                    /\ sleep_kind' = "short"
                    /\ sleep_ms' = final_delay(delay_ms, resume_count)
       ELSE /\ pc' = "connect"
            /\ UNCHANGED <<sleep_kind, sleep_ms>>
    /\ out' = NoFrame
    /\ UNCHANGED <<state, resume_count, result, event, heartbeat_interval_ms,
                   hb_left, ack_left, awaiting_ack, hs_sent, hs_kind, unacked,
                   fresh, ready_drop, at_end, invoked>>
    /\ UNCHANGED pre
    /\ rx' = NoRx
    /\ reset_from' = NoCount
    /\ UNCHANGED aux

\* start(), Err(e) arm (both inner arms call handle_reconnect_delay), up to
\* the sleep: the long pause at the ceiling, else the jittered short delay.
handle_reconnect_delay ==
    /\ pc = "ended"
    /\ result \notin {"Ok", "none"}
    /\ pc' = "sleep"
    /\ fails' = fails + 1
    /\ IF AtCeiling(resume_count)
       THEN /\ sleep_kind' = "long"
            /\ sleep_ms' = LongPauseMs
       ELSE \E delay_ms \in BaseSamples :
            /\ sleep_kind' = "short"
            /\ sleep_ms' = final_delay(delay_ms, resume_count)
    /\ out' = NoFrame
    /\ UNCHANGED <<state, resume_count, result, event, heartbeat_interval_ms,
                   hb_left, ack_left, awaiting_ack, hs_sent, hs_kind, unacked,
                   fresh, ready_drop, at_end, invoked>>
    /\ UNCHANGED pre
    /\ rx' = NoRx
    /\ reset_from' = NoCount
    /\ UNCHANGED aux

\* the counter after the sleep of handle_reconnect_delay
CountAfterSleep(kind, count) == IF kind = "long" THEN 0 ELSE count + 1

\* handle_reconnect_delay, after the sleep: the counter is reset or bumped and
\* start() loops.
Wake ==
    /\ pc = "sleep"
    /\ resume_count' = CountAfterSleep(sleep_kind, resume_count)
    /\ fails' = IF sleep_kind = "long" THEN 0 ELSE fails
    /\ pc' = "connect"
    /\ out' = NoFrame
    /\ UNCHANGED <<state, result, event, heartbeat_interval_ms, hb_left, ack_left,
                   awaiting_ack, sleep_kind, sleep_ms, hs_sent, hs_kind, unacked,
                   fresh, ready_drop, at_end, invoked>>
    /\ UNCHANGED pre
    /\ rx' = NoRx
    /\ reset_from' = NoCount
    /\ UNCHANGED aux

\* --------------------------------------- connect_and_loop 1: wait for Hello

IsHello(f) == OpCodeOf(f.op) = Hello /\ f.d.k = "obj"

\* the Rx of a text frame that parses
RxOf(f) ==
    Rx(IF OpCodeOf(f.op) # Hello THEN "other"
       ELSE IF f.d.k # "obj" THEN "hello_no_d"
       ELSE IF f.d.hb = NoInterval THEN "hello_no_interval"
       ELSE IF f.d.hb = 0 THEN "hello_zero"
       ELSE "hello",
       f.s)

\* a connection attempt ends before the handshake with error r
HelloReturn(r) ==
    /\ Return(r)
    /\ out' = NoFrame
    /\ NoConn
    /\ ready_drop' = NoReady
    /\ UNCHANGED <<state, resume_count, sleep_kind, sleep_ms, fresh, fails>>

\* the loop waiting for Hello reads on
HelloStay ==
    /\ out' = NoFrame
    /\ UNCHANGED <<state, resume_count, pc, result, event, heartbeat_interval_ms,
                   hb_left, ack_left, awaiting_ack, sleep_kind, sleep_ms, hs_sent,
                   hs_kind, unacked, fresh, fails, ready_drop, at_end, invoked>>
    /\ UNCHANGED pre

\* a text frame that parses and is not a Hello with an object d: logged only
HelloDiscard ==
    /\ pc = "hello"
    /\ \E f \in Frames : ~IsHello(f) /\ rx' = RxOf(f)
    /\ HelloStay
    /\ reset_from' = NoCount
    /\ UNCHANGED aux

\* a text frame that does not parse: serde_json::from_str(..)? returns
HelloBadText ==
    /\ pc = "hello"
    /\ rx' = Rx("bad_text", NoSeq)
    /\ HelloReturn("Serialization")
    /\ reset_from' = NoCount
    /\ UNCHANGED aux

\* Hello whose d has no u64 heartbeat_interval
HelloMissing ==
    /\ pc = "hello"
    /\ \E f \in Frames : IsHello(f) /\ f.d.hb = NoInterval /\ rx' = RxOf(f)
    /\ HelloReturn("MissingHeartbeatInterval")
    /\ reset_from' = NoCount
    /\ UNCHANGED aux

\* Some(Ok(Message::Close(_)))
HelloClose ==
    /\ pc = "hello"
    /\ rx' = Rx("close", NoSeq)
    /\ HelloReturn("ConnectionClosed")
    /\ reset_from' = NoCount
    /\ UNCHANGED aux

\* None: the stream ended
HelloEnd ==
    /\ pc = "hello"
    /\ rx' = Rx("end", NoSeq)
    /\ HelloReturn("ConnectionClosed")
    /\ reset_from' = NoCount
    /\ UNCHANGED aux

\* `_`: a binary, ping or pong message
HelloIgnore ==
    /\ pc = "hello"
    /\ rx' = Rx("binary", NoSeq)
    /\ HelloStay
    /\ reset_from' = NoCount
    /\ UNCHANGED aux

\* Some(Err(e))
HelloErr ==
    /\ pc = "hello"
    /\ rx' = Rx("err", NoSeq)
    /\ HelloReturn("ConnectionFailed")
    /\ reset_from' = NoCount
    /\ UNCHANGED aux

\* the heartbeat timer created with interval() for interval_at(): its first
\* tick is due at once
HelloHandshakeMut ==
    /\ pc = "hello"
    /\ \E f \in Frames :
        /\ IsHello(f)
        /\ f.d.hb # NoInterval
        /\ rx' = RxOf(f)
        /\ out' = HandshakeFrame(state)
        /\ hs_sent' = hs_sent + 1
        /\ hs_kind' = HandshakeFrame(state).op
        /\ fresh' = FALSE
        /\ IF f.d.hb = 0
           THEN /\ pc' = "panic"
                /\ NoLoop
           ELSE /\ pc' = "steady"
                /\ heartbeat_interval_ms' = f.d.hb
                /\ hb_left' = 0
                /\ ack_left' = Never
                /\ awaiting_ack' = FALSE
    /\ invoked' = "none"
    /\ UNCHANGED <<state, resume_count, result, event, sleep_kind, sleep_ms,
                   unacked, fails, ready_drop, at_end>>
    /\ UNCHANGED pre
    /\ reset_from' = NoCount
    /\ UNCHANGED aux

\* Hello with an interval: Identify or Resume is written, then the timers of
\* the select loop are created (interval_at panics on a zero period).
HelloHandshake ==
    /\ pc = "hello"
    /\ \E f \in Frames :
        /\ IsHello(f)
        /\ f.d.hb # NoInterval
        /\ rx' = RxOf(f)
        /\ out' = HandshakeFrame(state)
        /\ hs_sent' = hs_sent + 1
        /\ hs_kind' = HandshakeFrame(state).op
        /\ fresh' = FALSE
        /\ IF f.d.hb = 0
           THEN /\ pc' = "panic"
                /\ NoLoop
           ELSE /\ pc' = "steady"
                /\ heartbeat_interval_ms' = f.d.hb
                /\ hb_left' = f.d.hb
                /\ ack_left' = Never
                /\ awaiting_ack' = FALSE
    /\ invoked' = "none"
    /\ UNCHANGED <<state, resume_count, result, event, sleep_kind, sleep_ms,
                   unacked, fails, ready_drop, at_end>>
    /\ UNCHANGED pre
    /\ reset_from' = NoCount
    /\ UNCHANGED aux

\* Hello with an interval, and the write of Identify / Resume fails
HelloSendFailed ==
    /\ pc = "hello"
    /\ \E f \in Frames : IsHello(f) /\ f.d.hb # NoInterval /\ rx' = RxOf(f)
    /\ HelloReturn("SendFailed")
    /\ reset_from' = NoCount
    /\ UNCHANGED aux


\* ------------------------------------- connect_and_loop 3: the select loop

\* a select loop that forgets the session when it gives up on the peer
LoopReturnMut(r, keep) ==
    /\ Return(r)
    /\ out' = NoFrame
    /\ NoConn
    /\ ready_drop' = IF keep THEN ready_drop ELSE NoReady
    /\ state' = IF r = "HeartbeatTimeout" THEN SessionData(NoSession, NoSeq) ELSE state
    /\ UNCHANGED <<resume_count, sleep_kind, sleep_ms, fresh, fails>>

\* the select loop returns r; keep tells whether the connection dropped with
\* nothing processed since a READY
LoopReturn(r, keep) ==
    /\ Return(r)
    /\ out' = NoFrame
    /\ NoConn
    /\ ready_drop' = IF keep THEN ready_drop ELSE NoReady
    /\ UNCHANGED <<state, resume_count, sleep_kind, sleep_ms, fresh, fails>>

\* the read branch storing s only for frames that route to Dispatch
SteadyTextMut ==
    /\ pc = "steady"
    /\ \E f \in Frames :
        /\ event' = f
        /\ state' = IF f.s # NoSeq /\ OpCodeOf(f.op) = Dispatch
                    THEN update(state, NoSession, f.s) ELSE state
    /\ pc' = "route"
    /\ ready_drop' = NoReady
    /\ Quiet
    /\ invoked' = "none"
    /\ UNCHANGED <<heartbeat_interval_ms, hb_left, ack_left, awaiting_ack, unacked>>
    /\ pre' = state
    /\ rx' = NoRx
    /\ reset_from' = NoCount
    /\ UNCHANGED aux

\* read branch, a text frame that parses: last_seq takes s when s is present,
\* then the opcode is matched (pc = "route").
SteadyText ==
    /\ pc = "steady"
    /\ \E f \in Frames :
        /\ event' = f
        /\ state' = IF f.s # NoSeq THEN update(state, NoSession, f.s) ELSE state
    /\ pc' = "route"
    /\ ready_drop' = NoReady
    /\ Quiet
    /\ invoked' = "none"
    /\ UNCHANGED <<heartbeat_interval_ms, hb_left, ack_left, awaiting_ack, unacked>>
    /\ pre' = state
    /\ rx' = NoRx
    /\ reset_from' = NoCount
    /\ UNCHANGED aux

\* the parse error propagated with `?`, as the loop waiting for Hello does
SteadyBadTextMut ==
    /\ pc = "steady"
    /\ LoopReturn("Serialization", FALSE)
    /\ rx' = Rx("bad_text", NoSeq)
    /\ reset_from' = NoCount
    /\ UNCHANGED aux

\* read branch, a text frame that does not parse: logged, `continue`
SteadyBadText ==
    /\ pc = "steady"
    /\ ready_drop' = NoReady
    /\ Quiet
    /\ invoked' = "none"
    /\ UNCHANGED <<state, pc, event, heartbeat_interval_ms, hb_left, ack_left,
                   awaiting_ack, unacked>>
    /\ UNCHANGED pre
    /\ rx' = Rx("bad_text", NoSeq)
    /\ reset_from' = NoCount
    /\ UNCHANGED aux

\* read branch, `_`: a binary, ping or pong message
SteadyIgnore ==
    /\ pc = "steady"
    /\ ready_drop' = NoReady
    /\ Quiet
    /\ invoked' = "none"
    /\ UNCHANGED <<state, pc, event, heartbeat_interval_ms, hb_left, ack_left,
                   awaiting_ack, unacked>>
    /\ UNCHANGED pre
    /\ rx' = NoRx
    /\ reset_from' = NoCount
    /\ UNCHANGED aux

\* read branch, Message::Close
SteadyClose ==
    /\ pc = "steady"
    /\ LoopReturn("ConnectionClosed", TRUE)
    /\ rx' = NoRx
    /\ reset_from' = NoCount
    /\ UNCHANGED aux

\* read branch, None: the stream ended
SteadyEnd ==
    /\ pc = "steady"
    /\ LoopReturn("ConnectionClosed", TRUE)
    /\ rx' = NoRx
    /\ reset_from' = NoCount
    /\ UNCHANGED aux

\* read branch, Some(Err(e))
SteadyErr ==
    /\ pc = "steady"
    /\ LoopReturn("ConnectionFailed", TRUE)
    /\ rx' = NoRx
    /\ reset_from' = NoCount
    /\ UNCHANGED aux

\* opcode match, Dispatch (and every op outside the table): handle_dispatch
RouteDispatch ==
    /\ pc = "route"
    /\ OpCodeOf(event.op) = Dispatch
    /\ IF dispatch_result(event) = "Ok"
       THEN /\ state' = handle_dispatch(state, event)
            /\ ready_drop' =
                IF event.t = "READY" /\ event.d.k = "obj" /\ event.d.sid # NoSession
                   /\ event.s # NoSeq
                THEN [sid |-> event.d.sid, seq |-> event.s, hs |-> hs_kind]
                ELSE NoReady
            /\ invoked' = dispatch_handler(event)
            /\ pc' = "steady"
            /\ event' = NoEvent
            /\ Quiet
            /\ UNCHANGED <<heartbeat_interval_ms, hb_left, ack_left, awaiting_ack,
                           unacked>>
            /\ pre' = NoSessionData
       ELSE LoopReturn(dispatch_result(event), FALSE)
    /\ rx' = NoRx
    /\ reset_from' = NoCount
    /\ UNCHANGED aux

\* the HeartbeatACK arm clearing the flag and leaving the timer running
RouteHeartbeatACKMut ==
    /\ pc = "route"
    /\ OpCodeOf(event.op) = HeartbeatACK
    /\ awaiting_ack' = FALSE
    /\ ack_left' = ack_left
    /\ unacked' = FALSE
    /\ pc' = "steady"
    /\ event' = NoEvent
    /\ Quiet
    /\ invoked' = "none"
    /\ UNCHANGED <<state, heartbeat_interval_ms, hb_left, ready_drop>>
    /\ pre' = NoSessionData
    /\ rx' = NoRx
    /\ reset_from' = NoCount
    /\ UNCHANGED aux

\* opcode match, HeartbeatACK: the flag is cleared and the timer disarmed
RouteHeartbeatACK ==
    /\ pc = "route"
    /\ OpCodeOf(event.op) = HeartbeatACK
    /\ awaiting_ack' = FALSE
    /\ ack_left' = Never
    /\ unacked' = FALSE
    /\ pc' = "steady"
    /\ event' = NoEvent
    /\ Quiet
    /\ invoked' = "none"
    /\ UNCHANGED <<state, heartbeat_interval_ms, hb_left, ready_drop>>
    /\ pre' = NoSessionData
    /\ rx' = NoRx
    /\ reset_from' = NoCount
    /\ UNCHANGED aux

\* opcode match, InvalidSession: update(None, None), then Err(Other)
RouteInvalidSession ==
    /\ pc = "route"
    /\ OpCodeOf(event.op) = InvalidSession
    /\ state' = update(state, NoSession, NoSeq)
    /\ Return("Other")
    /\ out' = NoFrame
    /\ NoConn
    /\ ready_drop' = NoReady
    /\ UNCHANGED <<resume_count, sleep_kind, sleep_ms, fresh, fails>>
    /\ rx' = NoRx
    /\ reset_from' = NoCount
    /\ UNCHANGED aux

\* Reconnect handled as a session-destroying exit
RouteReconnectMut ==
    /\ pc = "route"
    /\ OpCodeOf(event.op) = Reconnect
    /\ Return("Ok")
    /\ out' = NoFrame
    /\ NoConn
    /\ ready_drop' = NoReady
    /\ state' = SessionData(NoSession, NoSeq)
    /\ UNCHANGED <<resume_count, sleep_kind, sleep_ms, fresh, fails>>
    /\ rx' = NoRx
    /\ reset_from' = NoCount
    /\ UNCHANGED aux

\* opcode match, Reconnect: Ok(())
RouteReconnect ==
    /\ pc = "route"
    /\ OpCodeOf(event.op) = Reconnect
    /\ LoopReturn("Ok", FALSE)
    /\ rx' = NoRx
    /\ reset_from' = NoCount
    /\ UNCHANGED aux

\* opcode match, Heartbeat: one heartbeat is written; the flag and the ACK
\* timer are left as they are
RouteHeartbeat ==
    /\ pc = "route"
    /\ OpCodeOf(event.op) = Heartbeat
    /\ out' = HeartbeatFrame(state)
    /\ unacked' = TRUE
    /\ pc' = "steady"
    /\ event' = NoEvent
    /\ result' = "none"
    /\ at_end' = NoSessionData
    /\ invoked' = "none"
    /\ ready_drop' = NoReady
    /\ UNCHANGED <<state, resume_count, heartbeat_interval_ms, hb_left, ack_left,
                   awaiting_ack, sleep_kind, sleep_ms, hs_sent, hs_kind, fresh,
                   fails>>
    /\ pre' = NoSessionData
    /\ rx' = NoRx
    /\ reset_from' = NoCount
    /\ UNCHANGED aux

\* opcode match, Heartbeat, and the write fails
RouteHeartbeatSendFailed ==
    /\ pc = "route"
    /\ OpCodeOf(event.op) = Heartbeat
    /\ LoopReturn("SendFailed", FALSE)
    /\ rx' = NoRx
    /\ reset_from' = NoCount
    /\ UNCHANGED aux

\* opcode match, `_`: Identify, Resume, Hello, CallbackACK, WebhookValidate
RouteOther ==
    /\ pc = "route"
    /\ OpCodeOf(event.op) \in {Identify, Resume, Hello, CallbackACK, WebhookValidate}
    /\ pc' = "steady"
    /\ event' = NoEvent
    /\ Quiet
    /\ invoked' = "none"
    /\ ready_drop' = NoReady
    /\ UNCHANGED <<state, heartbeat_interval_ms, hb_left, ack_left, awaiting_ack,
                   unacked>>
    /\ pre' = NoSessionData
    /\ rx' = NoRx
    /\ reset_from' = NoCount
    /\ UNCHANGED aux

\* the flag and the ACK timer after the tick branch wrote a heartbeat
TickArm == [awaiting |-> TRUE, left |-> AckTimeoutMs]

\* tick branch: a heartbeat is written, the flag set and the ACK timer armed
HeartbeatTick ==
    /\ pc = "steady"
    /\ hb_left = 0
    /\ out' = HeartbeatFrame(state)
    /\ awaiting_ack' = TickArm.awaiting
    /\ ack_left' = TickArm.left
    /\ hb_left' = heartbeat_interval_ms
    /\ unacked' = TRUE
    /\ result' = "none"
    /\ at_end' = NoSessionData
    /\ invoked' = "none"
    /\ ready_drop' = NoReady
    /\ UNCHANGED <<state, resume_count, pc, event, heartbeat_interval_ms,
                   sleep_kind, sleep_ms, hs_sent, hs_kind, fresh, fails>>
    /\ UNCHANGED pre
    /\ rx' = NoRx
    /\ reset_from' = NoCount
    /\ UNCHANGED aux

\* tick branch, and the write fails
TickSendFailed ==
    /\ pc = "steady"
    /\ hb_left = 0
    /\ LoopReturn("SendFailed", FALSE)
    /\ rx' = NoRx
    /\ reset_from' = NoCount
    /\ UNCHANGED aux

\* ack_timeout branch: HeartbeatTimeout when an ACK is awaited
AckTimeout ==
    /\ pc = "steady"
    /\ ack_left = 0
    /\ IF awaiting_ack
       THEN LoopReturn("HeartbeatTimeout", FALSE)
       ELSE /\ ready_drop' = NoReady
            /\ Quiet
            /\ invoked' = "none"
            /\ UNCHANGED pre
            /\ UNCHANGED <<state, pc, event, heartbeat_interval_ms, hb_left,
                           ack_left, awaiting_ack, unacked>>
    /\ rx' = NoRx
    /\ reset_from' = NoCount
    /\ UNCHANGED aux

\* time passes until the next timer of the select loop is due
Advance ==
    /\ pc = "steady"
    /\ hb_left > 0
    /\ ack_left # 0
    /\ LET d == IF ack_left = Never THEN hb_left ELSE Min(hb_left, ack_left)
       IN /\ hb_left' = hb_left - d
          /\ ack_left' = IF ack_left = Never THEN Never ELSE ack_left - d
    /\ Quiet
    /\ invoked' = "none"
    /\ UNCHANGED <<state, pc, event, heartbeat_interval_ms, awaiting_ack, unacked,
                   ready_drop>>
    /\ UNCHANGED pre
    /\ rx' = NoRx
    /\ reset_from' = NoCount
    /\ UNCHANGED aux

Next ==
    \/ Connect
    \/ ConnectFail
    \/ StartOk
    \/ handle_reconnect_delay
    \/ Wake
    \/ HelloDiscard
    \/ HelloBadText
    \/ HelloMissing
    \/ HelloClose
    \/ HelloEnd
    \/ HelloIgnore
    \/ HelloErr
    \/ HelloHandshake
    \/ HelloSendFailed
    \/ SteadyText
    \/ SteadyBadText
    \/ SteadyIgnore
    \/ SteadyClose
    \/ SteadyEnd
    \/ SteadyErr
    \/ RouteDispatch
    \/ RouteHeartbeatACK
    \/ RouteInvalidSession
    \/ RouteReconnect
    \/ RouteHeartbeat
    \/ RouteHeartbeatSendFailed
    \/ RouteOther
    \/ HeartbeatTick
    \/ TickSendFailed
    \/ AckTimeout
    \/ Advance

Spec == Init /\ [][Next]_vars

\* ============================================ intake server (server.rs)

\* d of a POST: an object that decodes as GroupMessage and as C2CMessage, and
\* an object holding the strings event_ts and plain_token
MsgD == [k |-> "msg", sid |-> NoSession, hb |-> NoInterval]
ValD == [k |-> "val", sid |-> NoSession, hb |-> NoInterval]

\* The POST bodies that parse as QQBotEvent (the Json extractor), by what
\* the handler looks at: op, and for op 0 the tag and d, for op 13 d.
Posts ==
    {QQBotEvent(Dispatch, NoSeq, t, d) :
        t \in Tags, d \in {NoD, ObjD(NoSession, NoInterval), MsgD}}
    \cup {QQBotEvent(WebhookValidate, NoSeq, NoT, d) :
        d \in {NoD, ObjD(NoSession, NoInterval), ValD}}
    \cup {QQBotEvent(op, NoSeq, NoT, NoD) :
        op \in (OpCodes \cup UnknownOps) \ {Dispatch, WebhookValidate}}

\* config.client_secret of the deployments modelled: empty, and "SEED"
IntakeSecrets == {<<>>, <<83, 69, 69, 68>>}

\* HTTP responses: Ok(Json(callback_ack)), Ok(Json(ValidationResponse)),
\* AppError::ValidationError through into_response, and the request ended
\* without a response (the handler panicked)
CallbackAck == [status |-> 200, body |-> "op12"]
Validated == [status |-> 200, body |-> "plain_token,signature"]
BadRequest == [status |-> 400, body |-> "error"]
Aborted == [status |-> -1, body |-> "none"]

\* EventType::from_str
EventTypes == {"GROUP_AT_MESSAGE_CREATE", "READY", "C2C_MESSAGE_CREATE"}

\* the handler a dispatch task calls for tag t
HandlerOf(t) ==
    IF t = "GROUP_AT_MESSAGE_CREATE" THEN "on_group_at_message_create"
    ELSE "on_c2c_message_create"

\* A detached dispatch task: the payload it was spawned with, where it is
\* ("spawned", "handler": awaiting the handler, "ok", "err") and, as history,
\* the response its POST was given.
Task(ev, st, r) == [ev |-> ev, st |-> st, resp |-> r]

\* the Dispatch arm awaiting dispatch_event before it answers
DispatchResponseMut(p) ==
    IF p.t # NoT /\ p.t \notin EventTypes THEN BadRequest
    ELSE IF p.t \in {"GROUP_AT_MESSAGE_CREATE", "C2C_MESSAGE_CREATE"} /\ p.d.k # "msg"
    THEN BadRequest
    ELSE CallbackAck

\* qq_bot_event_handler, Dispatch arm: the answer after tokio::spawn
DispatchResponse(p) == CallbackAck

\* qq_bot_event_handler, `_` and Err(err) arms: AppError::ValidationError
UnsupportedResponse(p) == BadRequest

IntakeInit ==
    /\ ManagerInit
    /\ IntakeIdle
    /\ secret \in IntakeSecrets
    /\ seed = <<>>
    /\ seed_pc = "idle"
    /\ CodecIdle
    /\ SelectIdle

\* what an intake step leaves alone
IntakeFrame == UNCHANGED <<mvars, svars, cvars, qvars>>

\* a POST arrives and the Json extractor yields the payload
Post ==
    /\ req = NoEvent
    /\ \E p \in Posts :
        /\ p.op = Dispatch => Len(tasks) < MaxTasks
        /\ req' = p
    /\ resp' = NoResp
    /\ called' = "none"
    /\ UNCHANGED tasks
    /\ IntakeFrame

\* Dispatch arm: the dispatch task is spawned and {op: 12} returned
HandleDispatch ==
    /\ req # NoEvent
    /\ req.op = Dispatch
    /\ resp' = DispatchResponse(req)
    /\ tasks' = Append(tasks, Task(req, "spawned", DispatchResponse(req)))
    /\ req' = NoEvent
    /\ called' = "none"
    /\ IntakeFrame

\* WebhookValidate arm, d holds event_ts and plain_token and the seed loop
\* ends (the secret is not empty): the ValidationResponse is returned
HandleValidate ==
    /\ req # NoEvent
    /\ req.op = WebhookValidate
    /\ req.d.k = "val"
    /\ secret # <<>>
    /\ resp' = Validated
    /\ req' = NoEvent
    /\ called' = "none"
    /\ UNCHANGED tasks
    /\ IntakeFrame

\* WebhookValidate arm, d is absent or lacks the two strings:
\* serde_json::from_value(..).unwrap() panics and the request is dropped
HandleValidatePanic ==
    /\ req # NoEvent
    /\ req.op = WebhookValidate
    /\ req.d.k # "val"
    /\ resp' = Aborted
    /\ req' = NoEvent
    /\ called' = "none"
    /\ UNCHANGED tasks
    /\ IntakeFrame

\* `_` arm (a known opcode other than 0 and 13) and Err(err) arm (an op
\* outside the table): HTTP 400 with {error}
HandleUnsupported ==
    /\ req # NoEvent
    /\ req.op \notin {Dispatch, WebhookValidate}
    /\ resp' = UnsupportedResponse(req)
    /\ req' = NoEvent
    /\ called' = "none"
    /\ UNCHANGED tasks
    /\ IntakeFrame

\* dispatch_event up to its first await: an absent tag and READY return Ok,
\* an unknown tag and a d that does not decode return Err, a message tag
\* whose d decodes calls the handler
RunTask(i) ==
    LET ev == tasks[i].ev
        st == IF ev.t = NoT THEN "ok"
              ELSE IF ev.t \notin EventTypes THEN "err"
              ELSE IF ev.t = "READY" THEN "ok"
              ELSE IF ev.d.k = "msg" THEN "handler"
              ELSE "err"
    IN /\ tasks[i].st = "spawned"
       /\ tasks' = [tasks EXCEPT ![i].st = st]
       /\ called' = IF st = "handler" THEN HandlerOf(ev.t) ELSE "none"
       /\ UNCHANGED <<req, resp>>
       /\ IntakeFrame

DispatchTask == \E i \in 1..Len(tasks) : RunTask(i)

\* the handler returns Ok(())
HandlerOk ==
    \E i \in 1..Len(tasks) :
        /\ tasks[i].st = "handler"
        /\ tasks' = [tasks EXCEPT ![i].st = "ok"]
        /\ called' = "none"
        /\ UNCHANGED <<req, resp>>
        /\ IntakeFrame

\* the handler returns Err(ClientError): the task logs it
HandlerErr ==
    \E i \in 1..Len(tasks) :
        /\ tasks[i].st = "handler"
        /\ tasks' = [tasks EXCEPT ![i].st = "err"]
        /\ called' = "none"
        /\ UNCHANGED <<req, resp>>
        /\ IntakeFrame

\* a finished task is reaped by the runtime
TaskGone ==
    /\ tasks # <<>>
    /\ tasks[1].st \in {"ok", "err"}
    /\ tasks' = Tail(tasks)
    /\ called' = "none"
    /\ UNCHANGED <<req, resp>>
    /\ IntakeFrame

IntakeNext ==
    \/ Post
    \/ HandleDispatch
    \/ HandleValidate
    \/ HandleValidatePanic
    \/ HandleUnsupported
    \/ DispatchTask
    \/ HandlerOk
    \/ HandlerErr
    \/ TaskGone

IntakeSpec == IntakeInit /\ [][IntakeNext]_vars


\* ================================================ QQBotEvent as JSON

\* the QQBotEvent values encoded: every combination of present and absent
\* id, d, s, t, with d also Some(Value::Null)
Values ==
    {Envelope(id, op, d, s, t) :
        id \in {"None", "e1"}, op \in {Dispatch, Heartbeat, WebhookValidate},
        d \in {"None", "null", "1", "{}"}, s \in {NoSeq, 1}, t \in {NoT, "READY"}}

\* serde_json::to_string (derive(Serialize)): id, s and t are skipped when
\* None; op and d are always written, d as null when None
to_string(v) ==
    Json({"op", "d"}
            \cup (IF v.id # "None" THEN {"id"} ELSE {})
            \cup (IF v.s # NoSeq THEN {"s"} ELSE {})
            \cup (IF v.t # NoT THEN {"t"} ELSE {}),
         v.id, v.op, IF v.d = "None" THEN "null" ELSE v.d, v.s, v.t)

\* serde_json::from_str (derive(Deserialize)): an Option field is None when
\* its member is missing or null, else Some of the member's value
from_str(w) ==
    Envelope(IF "id" \in w.members THEN w.id ELSE "None",
             w.op,
             IF "d" \in w.members /\ w.d # "null" THEN w.d ELSE "None",
             IF "s" \in w.members THEN w.s ELSE NoSeq,
             IF "t" \in w.members THEN w.t ELSE NoT)

CodecInit ==
    /\ ManagerInit
    /\ IntakeIdle
    /\ SeedIdle
    /\ SelectIdle
    /\ value \in Values
    /\ wire = NoWire
    /\ decoded = NoValue

\* the value is encoded
Encode ==
    /\ wire = NoWire
    /\ wire' = to_string(value)
    /\ UNCHANGED <<value, decoded>>
    /\ UNCHANGED <<mvars, ivars, svars, qvars>>

\* the text is decoded
Decode ==
    /\ wire # NoWire
    /\ decoded = NoValue
    /\ decoded' = from_str(wire)
    /\ UNCHANGED <<value, wire>>
    /\ UNCHANGED <<mvars, ivars, svars, qvars>>

CodecNext == Encode \/ Decode

CodecSpec == CodecInit /\ [][CodecNext]_vars

\* ========================================== validate_webhook: the seed

\* byte strings of length n over the bytes "A", "B"
RECURSIVE ByteStrings(_)
ByteStrings(n) ==
    IF n = 0 THEN {<<>>}
    ELSE {Append(b, c) : b \in ByteStrings(n - 1), c \in {65, 66}}

\* a byte string of length n whose first 64 bytes are all different
LongSecret(n) == [i \in 1..n |-> 33 + ((i * 5) % 64)]

\* client_secret values: the empty string, every string over two bytes up to
\* MaxShortSecret, "SEED", "test_secret", and strings around and beyond
\* SECRET_KEY_LENGTH
Secrets ==
    UNION {ByteStrings(n) : n \in 0..MaxShortSecret}
    \cup {<<83, 69, 69, 68>>,
          <<116, 101, 115, 116, 95, 115, 101, 99, 114, 101, 116>>}
    \cup {LongSecret(n) : n \in {SECRET_KEY_LENGTH - 1, SECRET_KEY_LENGTH,
                                   SECRET_KEY_LENGTH + 1, SECRET_KEY_LENGTH + 8}}

\* the slice keeping the last SECRET_KEY_LENGTH bytes
truncateMut(bytes) == SubSeq(bytes, Len(bytes) - SECRET_KEY_LENGTH + 1, Len(bytes))

\* &seed.as_bytes()[..SECRET_KEY_LENGTH]
truncate(bytes) == SubSeq(bytes, 1, SECRET_KEY_LENGTH)

\* validate_webhook is entered (the request in d has been decoded):
\* let mut seed = secret.to_owned()
SeedInit ==
    /\ ManagerInit
    /\ IntakeIdle
    /\ CodecIdle
    /\ SelectIdle
    /\ secret \in Secrets
    /\ seed = secret
    /\ seed_pc = "extend"

\* while seed.len() < SECRET_KEY_LENGTH { seed.push_str(secret) }: one pass
Extend ==
    /\ seed_pc = "extend"
    /\ Len(seed) < SECRET_KEY_LENGTH
    /\ seed' = seed \o secret
    /\ UNCHANGED <<secret, seed_pc>>
    /\ UNCHANGED <<mvars, ivars, cvars, qvars>>

\* the loop is left and the seed cut to SECRET_KEY_LENGTH bytes
Truncate ==
    /\ seed_pc = "extend"
    /\ Len(seed) >= SECRET_KEY_LENGTH
    /\ seed' = truncate(seed)
    /\ seed_pc' = "done"
    /\ UNCHANGED secret
    /\ UNCHANGED <<mvars, ivars, cvars, qvars>>

SeedNext == Extend \/ Truncate

SeedSpec == SeedInit /\ [][SeedNext]_vars

\* validate_webhook on a thread that keeps running: a pass of the loop that
\* can be made is made, and the loop is left once its test fails
SeedFairSpec ==
    /\ SeedInit
    /\ [][SeedNext]_vars
    /\ WF_vars(Extend)
    /\ WF_vars(Truncate)

\* ================== the select loop, frame by frame (connection.rs 166-244)

\* The text frames the peer delivers here: READY with s, a message with and
\* without s, HeartbeatACK, Reconnect.
SelFrames ==
    {f \in Frames :
        \/ /\ f.op = Dispatch
           /\ f.t = "READY"
           /\ f.s = 1
           /\ f.d = ObjD("S1", NoInterval)
        \/ /\ f.op = Dispatch
           /\ f.t = "GROUP_AT_MESSAGE_CREATE"
           /\ f.s \in {NoSeq, 2}
           /\ f.d = NoD
        \/ /\ f.op \in {HeartbeatACK, Reconnect}
           /\ f.s = NoSeq}

\* an entry of routed
Routed(f, data) == [f |-> f, at |-> data]

\* the frames of routed
RoutedFrames == [i \in DOMAIN routed |-> routed[i].f]

\* the select loop starts on a fresh manager or on one holding a session
SelectInit ==
    /\ ManagerInit
    /\ IntakeIdle
    /\ SeedIdle
    /\ CodecIdle
    /\ read = <<>>
    /\ arrived = <<>>
    /\ routed = <<>>
    /\ cur = NoEvent
    /\ sel_data \in {NoSessionData, SessionData("S2", 0)}
    /\ sel_await = FALSE
    /\ sel_pc = "select"

\* what a step of this loop leaves alone
SelectFrame == UNCHANGED <<mvars, ivars, svars, cvars>>

\* the peer delivers a text frame; the stream buffers it behind the others
SelArrive ==
    /\ sel_pc \in {"select", "route"}
    /\ Len(arrived) < MaxArrived
    /\ \E f \in SelFrames :
        /\ read' = Append(read, f)
        /\ arrived' = Append(arrived, f)
    /\ UNCHANGED <<routed, cur, sel_data, sel_await, sel_pc>>
    /\ SelectFrame

\* read branch: read.next() yields the oldest frame, it parses, s is stored
SelRead ==
    /\ sel_pc = "select"
    /\ read # <<>>
    /\ cur' = Head(read)
    /\ read' = Tail(read)
    /\ sel_data' = IF Head(read).s # NoSeq
                   THEN update(sel_data, NoSession, Head(read).s)
                   ELSE sel_data
    /\ sel_pc' = "route"
    /\ UNCHANGED <<arrived, routed, sel_await>>
    /\ SelectFrame

\* read branch, the opcode match on the envelope just read
SelRoute ==
    /\ sel_pc = "route"
    /\ routed' = Append(routed, Routed(cur, sel_data))
    /\ cur' = NoEvent
    /\ sel_data' = IF OpCodeOf(cur.op) = Dispatch
                   THEN handle_dispatch(sel_data, cur)
                   ELSE sel_data
    /\ sel_await' = IF OpCodeOf(cur.op) = HeartbeatACK THEN FALSE ELSE sel_await
    /\ sel_pc' = IF OpCodeOf(cur.op) \in {Reconnect, InvalidSession}
                 THEN "ended" ELSE "select"
    /\ UNCHANGED <<read, arrived>>
    /\ SelectFrame

\* a tick that cancels the pending read and loses the frame it was yielding
SelTickMut ==
    /\ sel_pc = "select"
    /\ read' = IF read # <<>> THEN Tail(read) ELSE read
    /\ \/ /\ sel_await' = TRUE
          /\ sel_pc' = "select"
       \/ /\ sel_await' = sel_await
          /\ sel_pc' = "ended"
    /\ UNCHANGED <<arrived, routed, cur, sel_data>>
    /\ SelectFrame

\* tick branch: a heartbeat is written (or the write fails and the loop
\* returns); the stream is left as it is
SelTick ==
    /\ sel_pc = "select"
    /\ \/ /\ sel_await' = TRUE
          /\ sel_pc' = "select"
       \/ /\ sel_await' = sel_await
          /\ sel_pc' = "ended"
    /\ UNCHANGED <<read, arrived, routed, cur, sel_data>>
    /\ SelectFrame

\* ACK timer branch: it can fire only after a tick armed it, awaiting_ack set
SelAckTimeout ==
    /\ sel_pc = "select"
    /\ sel_await
    /\ sel_pc' = "ended"
    /\ UNCHANGED <<read, arrived, routed, cur, sel_data, sel_await>>
    /\ SelectFrame

SelectNext ==
    \/ SelArrive
    \/ SelRead
    \/ SelRoute
    \/ SelTick
    \/ SelAckTimeout

SelectSpec == SelectInit /\ [][SelectNext]_vars

\* ================================================================== claims

\* C1: in every connection attempt the step that receives Hello writes exactly
\* one handshake frame: Resume (op 6) with the stored session_id and last_seq
\* when both are stored at that moment, else Identify (op 2) with no session
\* fields; a manager that never wrote a handshake frame writes Identify; no
\* handshake frame is written anywhere else, so a connection in the select
\* loop has written exactly one.
C1_OneHandshake ==
    [][/\ (pc = "hello" /\ pc' \in {"steady", "panic"}) =>
            /\ hs_sent = 0 /\ hs_sent' = 1
            /\ IF state.session_id # NoSession /\ state.last_seq # NoSeq
               THEN out' = [op |-> 6, sid |-> state.session_id, seq |-> state.last_seq]
               ELSE out' = [op |-> 2, sid |-> NoSession, seq |-> NoSeq]
            /\ fresh => out'.op = 2
       /\ out'.op \in {2, 6} => (pc = "hello" /\ pc' \in {"steady", "panic"})
       /\ pc' \in {"steady", "route"} => hs_sent' = 1
      ]_vars

\* C1 witness: a connection entered the select loop having written Resume
\* with a stored session
C1_Witness ==
    /\ pc = "steady"
    /\ hs_sent = 1
    /\ out = [op |-> 6, sid |-> "S1", seq |-> 2]

\* C2: routing InvalidSession sets both fields of SessionState to none and
\* ends the attempt, and the handshake of the attempt that follows an
\* InvalidSession exit is Identify.
C2_InvalidSessionClears ==
    [][/\ (pc = "route" /\ OpCodeOf(event.op) = InvalidSession) =>
            /\ pc' = "ended"
            /\ state'.session_id = NoSession
            /\ state'.last_seq = NoSeq
       /\ (pc = "hello" /\ pc' \in {"steady", "panic"} /\ result = "Other") =>
            out'.op = 2
      ]_vars

\* C3 as stated: processing a Reconnect frame, once a READY with a sequence
\* number has been accepted (session_id and last_seq both stored), ends the
\* attempt with SessionState as it was before the frame, and the handshake of
\* the attempt that follows is Resume carrying the stored session_id and
\* last_seq.
C3_ReconnectKeepsState ==
    [][/\ (/\ pc = "route"
           /\ OpCodeOf(event.op) = Reconnect
           /\ pre.session_id # NoSession
           /\ pre.last_seq # NoSeq) =>
            /\ pc' = "ended"
            /\ result' = "Ok"
            /\ state' = pre
       /\ (/\ pc = "hello" /\ pc' \in {"steady", "panic"}
           /\ result = "Ok"
           /\ at_end.session_id # NoSession
           /\ at_end.last_seq # NoSeq) =>
            out' = [op |-> 6, sid |-> at_end.session_id, seq |-> at_end.last_seq]
      ]_vars

\* C3 amended: processing a Reconnect frame, once session_id and last_seq are
\* both stored, ends the attempt (Ok) with session_id as it was before the
\* frame and last_seq as it was unless the Reconnect frame itself carries an
\* s, which last_seq then holds; the handshake of the attempt that follows is
\* Resume carrying the session_id and last_seq stored at that return.
C3_ReconnectResumes ==
    [][/\ (/\ pc = "route"
           /\ OpCodeOf(event.op) = Reconnect
           /\ pre.session_id # NoSession
           /\ pre.last_seq # NoSeq) =>
            /\ pc' = "ended"
            /\ result' = "Ok"
            /\ state'.session_id = pre.session_id
            /\ state'.last_seq = (IF event.s # NoSeq THEN event.s ELSE pre.last_seq)
       /\ (/\ pc = "hello" /\ pc' \in {"steady", "panic"}
           /\ result = "Ok"
           /\ at_end.session_id # NoSession
           /\ at_end.last_seq # NoSeq) =>
            out' = [op |-> 6, sid |-> at_end.session_id, seq |-> at_end.last_seq]
      ]_vars

\* C3 witness: the attempt after a peer Reconnect wrote Resume
C3_Witness ==
    /\ pc = "steady"
    /\ result = "Ok"
    /\ at_end = [session_id |-> "S2", last_seq |-> 1]
    /\ out = [op |-> 6, sid |-> "S2", seq |-> 1]

\* C4: last_seq never decreases, and after a frame of the select loop that
\* carries s it equals max(previous last_seq, s).
C4_LastSeqMax ==
    [][/\ state'.last_seq >= state.last_seq
       /\ (pc = "steady" /\ pc' = "route" /\ event'.s # NoSeq) =>
            state'.last_seq =
                (IF state.last_seq >= event'.s THEN state.last_seq ELSE event'.s)
      ]_vars

\* C5: a step that ends a connection attempt leaves session_id and last_seq
\* as they were immediately before it, unless it is the InvalidSession exit:
\* Close, end of stream, transport error, send failure, heartbeat timeout and
\* peer Reconnect all return with SessionState untouched.
C5_ExitsKeepSession ==
    [][(/\ pc # "ended"
        /\ pc' = "ended"
        /\ ~(pc = "route" /\ OpCodeOf(event.op) = InvalidSession)) =>
            /\ state' = state
            /\ result' \in {"Ok", "ConnectionClosed", "ConnectionFailed", "SendFailed",
                            "HeartbeatTimeout", "Serialization",
                            "MissingHeartbeatInterval"}
      ]_vars

\* C5 witness: an attempt ended by heartbeat timeout with a session stored
C5_Witness ==
    /\ pc = "ended"
    /\ result = "HeartbeatTimeout"
    /\ state = [session_id |-> "S1", last_seq |-> 1]
    /\ at_end = state

C7_ReadyThenResume ==
    [][/\ (/\ pc = "route"
           /\ event.op = 0
           /\ event.t = "READY"
           /\ event.d.k = "obj"
           /\ event.d.sid # NoSession
           /\ event.s # NoSeq) =>
            /\ state' = [session_id |-> event.d.sid, last_seq |-> event.s]
            /\ invoked' = "none"
            /\ pc' = "steady"
       /\ (pc = "hello" /\ pc' \in {"steady", "panic"} /\ ready_drop # NoReady) =>
            out' = [op |-> 6, sid |-> ready_drop.sid, seq |-> ready_drop.seq]
      ]_vars

\* C7 witness: Identify, READY (S1, 1), drop, and the next attempt wrote Resume
C7_Witness ==
    /\ pc = "steady"
    /\ ready_drop = [sid |-> "S1", seq |-> 1, hs |-> 2]
    /\ result \in {"ConnectionClosed", "ConnectionFailed"}
    /\ out = [op |-> 6, sid |-> "S1", seq |-> 1]

\* C8: the manager never writes a heartbeat on a connection while a heartbeat
\* it wrote earlier on that connection is still unacknowledged.
C8_NoSecondHeartbeat ==
    [][(pc \in {"steady", "route"} /\ out'.op = 1) => ~unacked]_vars

\* A peer that, once a connection is open, sends Hello and then nothing at
\* all (no HeartbeatACK, no other frame, no close), on a transport whose
\* writes succeed; opening the connection may fail.  The manager's task runs
\* whenever it can and time passes (weak fairness); tokio::select! picks at
\* random among the branches that are ready, so a timer branch that is ready
\* again and again is eventually taken (strong fairness).
NextSilent ==
    \/ Connect
    \/ ConnectFail
    \/ HelloHandshake
    \/ HeartbeatTick
    \/ AckTimeout
    \/ Advance
    \/ handle_reconnect_delay
    \/ Wake

SilentSpec ==
    /\ Init
    /\ [][NextSilent]_vars
    /\ WF_vars(Connect)
    /\ WF_vars(HelloHandshake)
    /\ SF_vars(HeartbeatTick)
    /\ SF_vars(AckTimeout)
    /\ WF_vars(Advance)
    /\ WF_vars(handle_reconnect_delay)
    /\ WF_vars(Wake)

\* C9: once a heartbeat is written and the peer never acknowledges it, the
\* attempt eventually ends classified HeartbeatTimeout, whatever the
\* heartbeat interval, and a new connection attempt follows.
C9_SilentPeerTimesOut ==
    /\ unacked ~> (pc = "ended" /\ result = "HeartbeatTimeout")
    /\ (pc = "ended" /\ result = "HeartbeatTimeout") ~> (pc = "connect")

C11_SuccessResets ==
    [][/\ (pc = "ended" /\ result = "Ok") =>
            (pc' = "connect" /\ resume_count' = 0)
       /\ (pc = "connect" /\ result = "Ok" /\ pc' = "hello") => resume_count' = 0
       /\ (pc' = "sleep" /\ sleep_kind' = "long") => fails' >= 3
      ]_vars

\* C11 witness: a success-close reset a counter that two failures had raised
C11_Witness ==
    /\ pc = "connect"
    /\ result = "Ok"
    /\ reset_from = 2
    /\ resume_count = 0

\* C12: a failed attempt that finds resume_count = k < 3 sleeps
\* min(base * (k + 1), 5000) ms for some integer base in [800, 1200], which
\* lies in [800 * (k + 1), min(1200 * (k + 1), 5000)] and never exceeds
\* 5000 ms, and resume_count is k + 1 when the sleep is over.
C12_ShortBackoff ==
    [][/\ (pc = "ended" /\ result \notin {"Ok", "none"} /\ resume_count < 3) =>
            /\ pc' = "sleep"
            /\ sleep_kind' = "short"
            /\ resume_count' = resume_count
       /\ (pc' = "sleep" /\ sleep_kind' = "short") =>
            LET k == resume_count'
                lo == 800 * (k + 1)
                hi == IF 1200 * (k + 1) <= 5000 THEN 1200 * (k + 1) ELSE 5000
            IN /\ k \in 0..2
               /\ \E base \in 800..1200 :
                    sleep_ms' = (IF base * (k + 1) <= 5000 THEN base * (k + 1) ELSE 5000)
               /\ lo <= sleep_ms' /\ sleep_ms' <= hi
               /\ sleep_ms' <= 5000
       /\ (pc = "sleep" /\ sleep_kind = "short") =>
            (pc' = "connect" /\ resume_count' = resume_count + 1)
      ]_vars

\* C12 witness: the third failure in a row slept the longest short delay and
\* the counter went from 2 to 3
C12_Witness ==
    /\ pc = "connect"
    /\ sleep_kind = "short"
    /\ sleep_ms = 3600
    /\ resume_count = 3

\* The manager with any peer, on a runtime that keeps running its task: once
\* connect_and_loop has returned, the arm of start() that matches is taken,
\* and a backoff sleep ends (weak fairness on the three steps of start()
\* that wait for nothing but the runtime and the clock).
FairSpec ==
    /\ Init
    /\ [][Next]_vars
    /\ WF_vars(StartOk)
    /\ WF_vars(handle_reconnect_delay)
    /\ WF_vars(Wake)

\* C13: start() never stops running (its task neither returns nor dies),
\* and every connection attempt that has ended, by a success-close or by any
\* failure, is eventually followed by a new connection attempt.
C13_StartNeverStops ==
    /\ [](pc # "panic")
    /\ (pc = "ended") ~> (pc = "connect")

\* C14: routing a GROUP_AT_MESSAGE_CREATE (C2C_MESSAGE_CREATE) Dispatch frame
\* whose d decodes invokes on_group_at_message_create
\* (on_c2c_message_create) once, and the select loop goes on reading without
\* waiting for the handler.
C14_HandlersInvoked ==
    [][(/\ pc = "route"
        /\ event.op = 0
        /\ event.t \in {"GROUP_AT_MESSAGE_CREATE", "C2C_MESSAGE_CREATE"}
        /\ event.d.k = "obj") =>
            /\ invoked' = (IF event.t = "GROUP_AT_MESSAGE_CREATE"
                           THEN "on_group_at_message_create"
                           ELSE "on_c2c_message_create")
            /\ pc' = "steady"
      ]_vars

\* C15: a POST with op 0 is answered {op: 12} in the step that spawns its
\* dispatch task, before that task has run, and the handler can always take
\* that step whatever the tasks spawned earlier are doing; the answer a POST
\* was given is {op: 12} whatever its task does afterwards (unknown or absent
\* tag, d that does not decode, handler error, handler never returning).
C15_AckWithoutWaiting ==
    [][/\ (req # NoEvent /\ req.op = 0) => ENABLED HandleDispatch
       /\ (req # NoEvent /\ req.op = 0 /\ req' = NoEvent) =>
            /\ resp' = [status |-> 200, body |-> "op12"]
            /\ Len(tasks') = Len(tasks) + 1
            /\ tasks'[Len(tasks')].ev = req
            /\ tasks'[Len(tasks')].st = "spawned"
       /\ \A i \in 1..Len(tasks') :
            tasks'[i].resp = [status |-> 200, body |-> "op12"]
       /\ (req' = req /\ tasks' # tasks) => resp' = resp
      ]_vars

\* C15 witness: a POST was answered {op: 12} while the task of an earlier
\* POST is still inside its handler, and its own task then failed on an
\* unknown tag
C15_Witness ==
    /\ Len(tasks) = 2
    /\ tasks[1].st = "handler"
    /\ tasks[2].st = "err"
    /\ tasks[2].ev.t = "RESUMED"
    /\ tasks[2].resp = [status |-> 200, body |-> "op12"]
    /\ resp = [status |-> 200, body |-> "op12"]

\* C16: a POST whose op is neither 0 nor 13 is answered HTTP 400 with an
\* {error} body, spawns no dispatch task and invokes no handler; a POST with
\* op 13 is answered with the validator response, and likewise spawns no
\* task and invokes no handler.
C16_OtherOpsRejected ==
    [][/\ (req # NoEvent /\ req.op \notin {0, 13} /\ req' = NoEvent) =>
            /\ resp' = [status |-> 400, body |-> "error"]
            /\ tasks' = tasks
            /\ called' = "none"
       /\ (req # NoEvent /\ req.op = 13 /\ req' = NoEvent) =>
            /\ resp' = [status |-> 200, body |-> "plain_token,signature"]
            /\ tasks' = tasks
            /\ called' = "none"
      ]_vars

\* C17: for a non-empty client_secret the signing seed is 32 bytes long and
\* its byte i (from 0) is byte (i mod len(client_secret)) of client_secret,
\* for secrets shorter than 32 bytes and for secrets of 32 bytes or more.
C17_SeedIsSecretRepeated ==
    (seed_pc = "done" /\ secret # <<>>) =>
        /\ Len(seed) = 32
        /\ \A i \in 0..31 : seed[i + 1] = secret[(i % Len(secret)) + 1]

\* C17 witness: the seed of a 3-byte secret, cut in the middle of a copy
C17_Witness ==
    /\ seed_pc = "done"
    /\ secret = <<65, 66, 66>>
    /\ Len(seed) = 32
    /\ seed[31] = 65
    /\ seed[32] = 66

\* C18: decoding the JSON encoding of a QQBotEvent yields an equal value,
\* for every combination of present and absent id, d, s, t and every d
\* including JSON null, and a field absent in the value is absent from the
\* encoded object.
C18_RoundTrip ==
    /\ decoded # NoValue => decoded = value
    /\ wire # NoWire =>
        /\ value.id = "None" => "id" \notin wire.members
        /\ value.d = "None" => "d" \notin wire.members
        /\ value.s = NoSeq => "s" \notin wire.members
        /\ value.t = NoT => "t" \notin wire.members

\* C19: a Hello whose d.heartbeat_interval is absent or not a positive
\* integer (0, a non-numeric value, no d object at all) ends the attempt with
\* MissingHeartbeatInterval, after which start() goes to its backoff and
\* reconnects; the select loop never runs with a heartbeat interval of 0.
C19_BadHelloRejected ==
    [][/\ (pc = "hello"
           /\ rx'.k \in {"hello_zero", "hello_no_interval", "hello_no_d"}) =>
            (pc' = "ended" /\ result' = "MissingHeartbeatInterval")
       /\ (pc = "ended" /\ result = "MissingHeartbeatInterval") => pc' = "sleep"
       /\ pc' \in {"steady", "route"} => heartbeat_interval_ms' > 0
      ]_vars

\* C20: while the manager waits for Hello, a frame that is not a Hello (an
\* envelope of any other opcode, with or without s, a text that is no
\* envelope, a binary, ping or pong message) is discarded: SessionState is
\* unchanged, nothing is written and the attempt goes on waiting; an attempt
\* that ends before any Hello ends by the peer's close, the end of the
\* stream or a transport error.
C20_PreHelloDiscard ==
    [][/\ (pc = "hello" /\ rx'.k \in {"other", "bad_text", "binary"}) =>
            /\ pc' = "hello"
            /\ state' = state
            /\ out' = NoFrame
       /\ (/\ pc = "hello"
           /\ pc' = "ended"
           /\ rx'.k \notin {"hello", "hello_zero", "hello_no_interval", "hello_no_d"}) =>
            /\ rx'.k \in {"close", "end", "err"}
            /\ result' \in {"ConnectionClosed", "ConnectionFailed"}
      ]_vars

\* C21: a text frame of the select loop that does not parse as an envelope
\* is skipped: the loop goes on on the same connection, SessionState, the
\* awaiting-ACK flag and both timers are as they were, nothing is written,
\* and the loop can read and process the next frame.
C21_BadTextSkipped ==
    [][/\ (pc \in {"steady", "route"} /\ rx'.k = "bad_text") =>
            /\ pc = "steady"
            /\ pc' = "steady"
            /\ state' = state
            /\ awaiting_ack' = awaiting_ack
            /\ ack_left' = ack_left
            /\ hb_left' = hb_left
            /\ hs_sent' = hs_sent
            /\ out' = NoFrame
       /\ (pc = "steady" /\ rx.k = "bad_text") => ENABLED SteadyText
      ]_vars

\* C21 witness: a text that does not parse was skipped while an ACK is
\* awaited and a session is stored
C21_Witness ==
    /\ pc = "steady"
    /\ rx.k = "bad_text"
    /\ awaiting_ack
    /\ ack_left = 7000
    /\ state = [session_id |-> "S1", last_seq |-> 2]

\* C22: a frame of the select loop whose op is outside the opcode table is
\* ignored whatever its t and d: routing it leaves session_id as it was,
\* invokes no handler, writes nothing and keeps the loop running (its s may
\* have been stored in last_seq when it was read).
C22_UnknownOpIgnored ==
    [][(pc = "route" /\ event.op \notin {0, 1, 2, 6, 7, 9, 10, 11, 12, 13}) =>
            /\ state'.session_id = state.session_id
            /\ state'.session_id = pre.session_id
            /\ invoked' = "none"
            /\ out' = NoFrame
            /\ pc' = "steady"
      ]_vars

\* C23: routing a Dispatch (op 0) frame never ends the connection attempt,
\* whatever its t (absent, unknown, RESUMED, a message tag) and its d
\* (absent, of the wrong shape): after it the select loop is running on the
\* same connection, with its timers and awaiting-ACK flag as they were.
C23_DispatchNeverEnds ==
    [][(pc = "route" /\ event.op = 0) =>
            /\ pc' = "steady"
            /\ hs_sent' = hs_sent
            /\ heartbeat_interval_ms' = heartbeat_interval_ms
            /\ hb_left' = hb_left
            /\ ack_left' = ack_left
            /\ awaiting_ack' = awaiting_ack
            /\ out' = NoFrame
      ]_vars

\* C23 witness: a Dispatch with an unknown tag and no d is being routed on
\* a connection that awaits an ACK
C23_Witness ==
    /\ pc = "route"
    /\ event.op = 0
    /\ event.t = "RESUMED"
    /\ event.d.k = "absent"
    /\ awaiting_ack

\* C24: after every heartbeat the manager writes, on a timer tick or in
\* reply to a peer Heartbeat (op 1), the manager is awaiting an ACK and the
\* ACK timer is armed (at most the ACK timeout away).
C24_EveryHeartbeatArms ==
    [][(pc \in {"steady", "route"} /\ out'.op = 1) =>
            /\ awaiting_ack'
            /\ ack_left' \in 0..7000
      ]_vars

\* C25: every heartbeat frame written is {op: 1, d: x} with x the last_seq
\* stored when it is written (null when none is stored), and routing a peer
\* Heartbeat (op 1) writes exactly one such frame in that same step, before
\* any later frame is read (unless the write fails, which ends the attempt).
C25_HeartbeatPayload ==
    [][/\ out'.op = 1 =>
            /\ pc \in {"steady", "route"}
            /\ out' = [op |-> 1, sid |-> NoSession, seq |-> state.last_seq]
            /\ state' = state
       /\ (pc = "route" /\ event.op = 1) =>
            \/ (out'.op = 1 /\ pc' = "steady")
            \/ (out' = NoFrame /\ pc' = "ended" /\ result' = "SendFailed")
      ]_vars

\* C25 witness: a heartbeat carrying last_seq 2 was written in reply to a
\* peer Heartbeat while the tick is due but not yet taken
C25_Witness ==
    /\ pc = "steady"
    /\ out = [op |-> 1, sid |-> NoSession, seq |-> 2]
    /\ state.last_seq = 2
    /\ hb_left = 0

\* C26: routing a HeartbeatACK (op 11) leaves the manager not awaiting an
\* ACK with the ACK timer disarmed; while no heartbeat has been written
\* since, the flag stays clear and the timer disarmed, and an attempt ends
\* with HeartbeatTimeout only while a heartbeat written after the last ACK
\* is unacknowledged.
C26_AckDisarms ==
    [][/\ (pc = "route" /\ event.op = 11) =>
            /\ pc' = "steady"
            /\ awaiting_ack' = FALSE
            /\ ack_left' = Never
       /\ (pc \in {"steady", "route"} /\ ~unacked) =>
            (awaiting_ack = FALSE /\ ack_left = Never)
       /\ (pc' = "ended" /\ result' = "HeartbeatTimeout") =>
            (unacked /\ awaiting_ack /\ ack_left = 0)
      ]_vars

\* C26 witness: a HeartbeatACK has just been routed 100 ms after the tick
\* that armed the timer (the next tick is due)
C26_Witness ==
    /\ pc = "steady"
    /\ heartbeat_interval_ms = 100
    /\ hb_left = 0
    /\ ~unacked
    /\ ~awaiting_ack
    /\ ack_left = Never
    /\ state.last_seq = 1

\* C27: within one connection the frames are routed one at a time, in the
\* order they arrived, each once and none skipped, however heartbeat ticks
\* and the ACK timer interleave: the frames routed, the one being routed and
\* the ones still in the stream are together exactly the frames that
\* arrived, in arrival order; and whenever the opcode match of a frame
\* carrying s starts, last_seq is that s.
C27_InOrderOnce ==
    /\ RoutedFrames \o (IF cur # NoEvent THEN <<cur>> ELSE <<>>) \o read = arrived
    /\ (sel_pc = "route") <=> (cur # NoEvent)
    /\ \A i \in DOMAIN routed :
        routed[i].f.s # NoSeq => routed[i].at.last_seq = routed[i].f.s
    /\ (cur # NoEvent /\ cur.s # NoSeq) => sel_data.last_seq = cur.s

\* C27 witness: a message with s = 2 and then a READY with s = 1 were routed
\* in that order on a fresh manager, a heartbeat tick having fired since
\* the last ACK and a third frame waiting; last_seq was 1 and no session_id was stored when
\* the READY was routed, and the session_id is installed now
C27_Witness ==
    /\ Len(routed) = 2
    /\ routed[1].f.s = 2
    /\ routed[1].at = SessionData(NoSession, 2)
    /\ routed[2].f.t = "READY"
    /\ routed[2].at = SessionData(NoSession, 1)
    /\ sel_data = SessionData("S1", 1)
    /\ sel_await
    /\ Len(read) = 1
    /\ sel_pc = "select"

C29_LastSeqIsLatestS ==
    /\ state.last_seq = NoSeq
    /\ [][/\ (pc = "steady" /\ pc' = "route" /\ event'.s # NoSeq) =>
                state'.last_seq = event'.s
          /\ state'.last_seq # state.last_seq =>
                (pc = "steady" /\ pc' = "route" /\ event'.s # NoSeq)
          /\ pc = "hello" => state'.last_seq = state.last_seq
         ]_vars

\* C29 witness: while waiting for Hello the manager has just discarded a
\* frame carrying s = 2, and last_seq is still the 1 stored by a frame of an
\* earlier connection
C29_Witness ==
    /\ pc = "hello"
    /\ rx = Rx("other", 2)
    /\ state.last_seq = 1
    /\ resume_count = 1

\* C30: an attempt that ended with an error, whatever the error, is followed
\* by a sleep of positive length during which resume_count is untouched;
\* waking from it sets resume_count to 0 when it was at the ceiling and to
\* resume_count + 1 otherwise, and only then the next attempt starts.  A new
\* attempt starts without a sleep only after an attempt that returned Ok,
\* and an attempt returns Ok only from the Reconnect arm (op 7).
C30_ErrorThenBackoff ==
    [][/\ (pc = "ended" /\ result # "Ok") =>
            /\ pc' = "sleep"
            /\ sleep_ms' > 0
            /\ resume_count' = resume_count
       /\ pc = "sleep" =>
            /\ pc' = "connect"
            /\ resume_count' = IF resume_count >= 3 THEN 0 ELSE resume_count + 1
       /\ pc' = "connect" =>
            (pc = "sleep" \/ (pc = "ended" /\ result = "Ok"))
       /\ (pc = "ended" /\ result = "Ok") => pc' = "connect"
       /\ (pc' = "ended" /\ result' = "Ok") => (pc = "route" /\ event.op = 7)
      ]_vars

\* C30 witness: the second failure in a row, an InvalidSession exit of a
\* connection that had received READY, has been slept off and counted
C30_Witness ==
    /\ pc = "connect"
    /\ result = "Other"
    /\ sleep_kind = "short"
    /\ resume_count = 2
    /\ state.session_id = "S1"

\* C31: resume_count stays between 0 and MAX_RESUME_RETRIES (3) in every
\* reachable state, whatever sequence of successful and failed attempts led
\* to it.
C31_CountWithinCeiling ==
    /\ resume_count >= 0
    /\ resume_count <= 3

\* C31 witness: the counter is at the ceiling and the manager is in the long
\* pause entered by a fourth failure in a row
C31_Witness ==
    /\ pc = "sleep"
    /\ sleep_kind = "long"
    /\ resume_count = 3
    /\ fails = 4

\* C32: the manager has at most one connection open, and nothing of one
\* connection's heartbeat bookkeeping reaches the next.  The stream halves,
\* the pending-ACK flag and the ACK timer are locals of connect_and_loop, so
\* a connection is open exactly while pc is "hello", "steady" or "route":
\* a connection is opened only by the connect step, which is reached only
\* from a finished attempt (directly or through the backoff sleep); the
\* sleep is entered only from a finished attempt; and outside the select
\* loop no ACK is awaited and no ACK timer runs, so every connection enters
\* its select loop with the flag clear and the timer disarmed.
C32_OneConnection ==
    [][/\ pc \in {"connect", "hello", "ended", "sleep"} =>
            /\ awaiting_ack = FALSE
            /\ ack_left = Never
            /\ heartbeat_interval_ms = 0
       /\ (pc # "hello" /\ pc' = "hello") => pc = "connect"
       /\ (pc # "connect" /\ pc' = "connect") => pc \in {"ended", "sleep"}
       /\ (pc # "sleep" /\ pc' = "sleep") => pc = "ended"
       /\ (pc \in {"hello", "steady", "route"} /\ pc' \notin {"hello", "steady", "route"}) =>
            pc' \in {"ended", "panic"}
       /\ (pc = "hello" /\ pc' = "steady") =>
            /\ awaiting_ack' = FALSE
            /\ ack_left' = Never
            /\ unacked' = FALSE
            /\ hs_sent' = 1
      ]_vars

\* C32 witness: the previous connection ended with HeartbeatTimeout, its ACK
\* awaited and its timer expired; the connection opened after the backoff
\* has just entered its select loop with no ACK awaited
C32_Witness ==
    /\ pc = "steady"
    /\ result = "HeartbeatTimeout"
    /\ resume_count = 1
    /\ hs_sent = 1
    /\ awaiting_ack = FALSE
    /\ ack_left = Never
    /\ unacked = FALSE

\* C33: on every connection nothing is written while the manager waits for
\* Hello; the step that takes Hello writes the one Identify (op 2) or Resume
\* (op 6); after it only heartbeats (op 1) are written, so no heartbeat
\* precedes the handshake frame.  The heartbeat timer is created one full
\* interval away, runs down only as time passes, and the tick branch writes
\* only when it has run out, so the first timer heartbeat comes one full
\* interval after the handshake.  A Hello (op 10) routed in the select loop
\* writes nothing and the connection still has written one handshake frame.
C33_SendOrder ==
    [][/\ pc = "hello" => (out = NoFrame /\ hs_sent = 0 /\ unacked = FALSE)
       /\ (pc = "hello" /\ pc' = "hello") => out' = NoFrame
       /\ (pc = "hello" /\ pc' \in {"steady", "panic"}) =>
            (out'.op \in {2, 6} /\ hs_sent' = 1)
       /\ (pc = "hello" /\ pc' = "steady") =>
            (heartbeat_interval_ms' > 0 /\ hb_left' = heartbeat_interval_ms')
       /\ pc \in {"steady", "route"} =>
            (hs_sent = 1 /\ hs_sent' \in {0, 1} /\ out' \in {NoFrame, HeartbeatFrame(state')})
       /\ out'.op = 1 => (pc \in {"steady", "route"} /\ hs_sent = 1)
       /\ (out'.op = 1 /\ pc = "steady") => hb_left = 0
       /\ (pc = "steady" /\ pc' = "steady" /\ hb_left' < hb_left) =>
            /\ out' = NoFrame
            /\ ack_left # Never => ack_left - ack_left' = hb_left - hb_left'
            /\ state' = state
       /\ (pc = "route" /\ event.op = 10) =>
            (pc' = "steady" /\ out' = NoFrame /\ hs_sent' = 1)
      ]_vars

\* C33 witness: a Hello is about to be routed in the select loop of a
\* connection whose first timer heartbeat was written after a full interval
\* of 100 ms and is awaiting its ACK
C33_Witness ==
    /\ pc = "route"
    /\ event.op = 10
    /\ hs_sent = 1
    /\ heartbeat_interval_ms = 100
    /\ hb_left = 100
    /\ awaiting_ack
    /\ ack_left = 7000

\* C34: validate_webhook terminates for every client_secret, the empty
\* string included: the loop that extends the seed is left, with a seed of
\* SECRET_KEY_LENGTH bytes, after finitely many passes.
C34_SeedLoopEnds == <>(seed_pc = "done" /\ Len(seed) = SECRET_KEY_LENGTH)

\* C35: every POST with op 13 ends with an HTTP response, never with the
\* request aborted; when its d is absent or lacks a string event_ts or
\* plain_token the response is HTTP 400 with an {error} body.
C35_ValidateAlwaysAnswers ==
    [][(req # NoEvent /\ req.op = 13 /\ req' = NoEvent) =>
            /\ resp' # NoResp
            /\ resp'.status # -1
            /\ req.d.k # "val" => resp' = [status |-> 400, body |-> "error"]
      ]_vars

====
